---- MODULE Spec2Model ----
(***************************************************************************)
(* A model of trajectory-data-tools:                                       *)
(*   data_tools.py           read_parquet, plot_trajectory_spacetime_      *)
(*                           diagram (segment building loop),              *)
(*                           analysis_movement_data                        *)
(*   update_parquet_meta.py  update_parquet_meta                           *)
(* Each function is a small state machine over its own variables; the      *)
(* four specifications SpecMove, SpecRead, SpecUpdate and SpecSeg run one  *)
(* function each and leave the variables of the others at their idle       *)
(* values.                                                                 *)
(***************************************************************************)
EXTENDS Integers, Sequences, FiniteSets, TLC

VARIABLES
    \* analysis_movement_data
    trajectory_data, order, lane_sequence_to_movement_map, pc, pos,
    global_min_frame, global_max_frame, movement_counts, od_counts,
    od_vehicles, valid_movement_vehicles, undefined_filtered_count,
    total_vehicles, result,
    \* update_parquet_meta
    pc_u, parquet_header, output_path, output_header, new_meta_dict,
    new_meta_json_str, table_meta, existing_meta, updated_meta,
    \* read_parquet
    pc_r, raised, file_meta, columns, records, rec_idx, restored_meta,
    restored_tracks, returned,
    \* plot_trajectory_spacetime_diagram
    pc_s, raised_s, seg_tracks, unique_lane_ids, frame_interval, lane_idx,
    track_idx, pair_idx, lines, speeds, lc_points_x, lc_points_y, saved

moveVars == <<trajectory_data, order, lane_sequence_to_movement_map, pc, pos,
              global_min_frame, global_max_frame, movement_counts, od_counts,
              od_vehicles, valid_movement_vehicles, undefined_filtered_count,
              total_vehicles, result>>

updVars == <<pc_u, parquet_header, output_path, output_header, new_meta_dict,
             new_meta_json_str, table_meta, existing_meta, updated_meta>>

readVars == <<pc_r, raised, file_meta, columns, records, rec_idx, restored_meta,
              restored_tracks, returned>>

segVars == <<pc_s, raised_s, seg_tracks, unique_lane_ids, frame_interval,
             lane_idx, track_idx, pair_idx, lines, speeds, lc_points_x,
             lc_points_y, saved>>

vars == <<moveVars, updVars, readVars, segVars>>

\* ------------------------------------------------------------------------
\* Generic helpers
\* ------------------------------------------------------------------------

EmptyMap == [k \in {} |-> 0]

Last(s) == s[Len(s)]

Range(s) == {s[i] : i \in 1..Len(s)}

RECURSIVE SumOver(_, _)
SumOver(f, keys) ==
    IF keys = {} THEN 0
    ELSE LET k == CHOOSE x \in keys : TRUE
         IN  f[k] + SumOver(f, keys \ {k})

\* sum of the values of a dict of counters
SumValues(f) == SumOver(f, DOMAIN f)

\* dict.get(key, default)
Get(d, key, default) == IF key \in DOMAIN d THEN d[key] ELSE default

\* d[key] = value on a dict (insert or overwrite)
Put(d, key, value) ==
    [k \in (DOMAIN d) \cup {key} |-> IF k = key THEN value ELSE d[k]]

\* all orderings of a finite set, as sequences without repetition
Orderings(S) ==
    {p \in [1..Cardinality(S) -> S] : \A i, j \in 1..Cardinality(S) : p[i] = p[j] => i = j}

\* ------------------------------------------------------------------------
\* analysis_movement_data: inputs
\* ------------------------------------------------------------------------

\* number of tracks in the track mapping
NumTracks == 2

VehicleIds == 1..NumTracks

\* the +-3 frames of the boundary filter
BOUNDARY_MARGIN == 3

\* An element of lane_sequence: ok says whether int(x) succeeds, v is int(x).
Lane(n) == [ok |-> TRUE, v |-> n]
BadLane == [ok |-> FALSE, v |-> 0]

\* lane_sequence values: absent/None/empty, not convertible, one lane, several
LaneSeqs == { <<>>,
              <<Lane(2), BadLane>>,
              <<Lane(1)>>,
              <<Lane(1), Lane(3), Lane(2)>> }

\* frame_index values: absent/None/empty, the whole recording, interior,
\* and the two that touch the margin on one side only
FrameSeqs == { <<>>, <<0, 3, 6>>, <<3>>, <<2, 3>>, <<3, 4>> }

TrackShapes == [lane_sequence : LaneSeqs, frame_index : FrameSeqs]

\* lane_sequence_to_movement_map values of the metadata (JSON object of strings)
MovementMaps == { EmptyMap,
                  ("1-1" :> "Through"),
                  ("1-2" :> "Undefined") @@ ("1-1" :> "Left") }

\* ------------------------------------------------------------------------
\* analysis_movement_data: pure parts
\* ------------------------------------------------------------------------

Digit(d) ==
    CASE d = 0 -> "0" [] d = 1 -> "1" [] d = 2 -> "2" [] d = 3 -> "3"
      [] d = 4 -> "4" [] d = 5 -> "5" [] d = 6 -> "6" [] d = 7 -> "7"
      [] d = 8 -> "8" [] d = 9 -> "9"

RECURSIVE NatStr(_)
NatStr(n) == IF n < 10 THEN Digit(n) ELSE NatStr(n \div 10) \o Digit(n % 10)

\* str(n) of an int, as the f-string formats it
IntStr(n) == IF n < 0 THEN "-" \o NatStr(0 - n) ELSE NatStr(n)

\* f"{start_lane}-{end_lane}"
OdKey(start_lane, end_lane) == IntStr(start_lane) \o "-" \o IntStr(end_lane)

\* the track has a frame_index that is present, not None and not empty
HasFrames(track) == Len(track.frame_index) > 0

\* all_start_frames / all_end_frames, in iteration order
RECURSIVE StartFrames(_, _)
StartFrames(data, ord) ==
    IF ord = <<>> THEN <<>>
    ELSE (IF HasFrames(data[Head(ord)])
          THEN <<data[Head(ord)].frame_index[1]>> ELSE <<>>)
         \o StartFrames(data, Tail(ord))

RECURSIVE EndFrames(_, _)
EndFrames(data, ord) ==
    IF ord = <<>> THEN <<>>
    ELSE (IF HasFrames(data[Head(ord)])
          THEN <<Last(data[Head(ord)].frame_index)>> ELSE <<>>)
         \o EndFrames(data, Tail(ord))

\* a bug: the first track's start frame taken for the global minimum
MinOfFirst(s) == s[1]

\* min(all_start_frames)
MinOf(s) == CHOOSE m \in Range(s) : \A x \in Range(s) : m <= x

\* max(all_end_frames)
MaxOf(s) == CHOOSE m \in Range(s) : \A x \in Range(s) : m >= x

\* a bug: the margin compared inclusively
AtBoundaryInclusive(v_start, v_end, gmin, gmax) ==
    v_start <= gmin + BOUNDARY_MARGIN \/ v_end >= gmax - BOUNDARY_MARGIN

\* the exclusion condition of the boundary filter
AtBoundary(v_start, v_end, gmin, gmax) ==
    v_start < gmin + BOUNDARY_MARGIN \/ v_end > gmax - BOUNDARY_MARGIN

\* the movement name of an od_key
MovementName(lmap, od_key) ==
    IF od_key \in DOMAIN lmap THEN lmap[od_key] ELSE "Undefined"

\* the counters of the second pass
Counters(mc, oc, ov, valid, filtered) ==
    [movement_counts |-> mc, od_counts |-> oc, od_vehicles |-> ov,
     valid_movement_vehicles |-> valid, undefined_filtered_count |-> filtered]

ZeroCounters == Counters(EmptyMap, EmptyMap, EmptyMap, 0, 0)

\* the counting part of one iteration (after the filter let the track pass)
Count(acc, vid, od_key, movement_name) ==
    Counters(Put(acc.movement_counts, movement_name,
                 Get(acc.movement_counts, movement_name, 0) + 1),
             Put(acc.od_counts, od_key, Get(acc.od_counts, od_key, 0) + 1),
             Put(acc.od_vehicles, od_key,
                 Append(Get(acc.od_vehicles, od_key, <<>>), vid)),
             IF movement_name # "Undefined"
             THEN acc.valid_movement_vehicles + 1
             ELSE acc.valid_movement_vehicles,
             acc.undefined_filtered_count)

\* a bug: the filtered track is tallied but the loop does not `continue`
FilterNoContinue(acc, vid, od_key, movement_name) ==
    Count([acc EXCEPT !.undefined_filtered_count = @ + 1], vid, od_key, movement_name)

\* the filtered branch of one iteration
Filter(acc, vid, od_key, movement_name) ==
    [acc EXCEPT !.undefined_filtered_count = @ + 1]

\* one iteration of the second pass, on the counters acc
VisitTrack(acc, vid, track, lmap, gmin, gmax) ==
    LET lane_seq == track.lane_sequence IN
    IF Len(lane_seq) = 0 THEN acc
    ELSE IF ~(lane_seq[1].ok /\ Last(lane_seq).ok) THEN acc
    ELSE
      LET od_key == OdKey(lane_seq[1].v, Last(lane_seq).v)
          movement_name == MovementName(lmap, od_key)
      IN  IF movement_name = "Undefined" /\ ~HasFrames(track) THEN acc
          ELSE IF movement_name = "Undefined"
                  /\ AtBoundary(track.frame_index[1], Last(track.frame_index),
                                gmin, gmax)
               THEN Filter(acc, vid, od_key, movement_name)
               ELSE Count(acc, vid, od_key, movement_name)

\* ------------------------------------------------------------------------
\* analysis_movement_data: the state machine
\* ------------------------------------------------------------------------

MoveStart ==
    /\ trajectory_data \in [VehicleIds -> TrackShapes]
    /\ order \in Orderings(VehicleIds)
    /\ lane_sequence_to_movement_map \in MovementMaps
    /\ pc = "pass1"
    /\ pos = 1
    /\ global_min_frame = 0
    /\ global_max_frame = 0
    /\ movement_counts = EmptyMap
    /\ od_counts = EmptyMap
    /\ od_vehicles = EmptyMap
    /\ valid_movement_vehicles = 0
    /\ undefined_filtered_count = 0
    /\ total_vehicles = 0
    /\ result = EmptyMap

\* first pass: no track has frames, return {}
Pass1Empty ==
    /\ pc = "pass1"
    /\ StartFrames(trajectory_data, order) = <<>>
    /\ pc' = "done"
    /\ result' = EmptyMap
    /\ UNCHANGED <<trajectory_data, order, lane_sequence_to_movement_map, pos,
                   global_min_frame, global_max_frame, movement_counts,
                   od_counts, od_vehicles, valid_movement_vehicles,
                   undefined_filtered_count, total_vehicles>>

\* first pass: the global frame range, and the counters initialised
Pass1 ==
    /\ pc = "pass1"
    /\ StartFrames(trajectory_data, order) # <<>>
    /\ global_min_frame' = MinOf(StartFrames(trajectory_data, order))
    /\ global_max_frame' = MaxOf(EndFrames(trajectory_data, order))
    /\ movement_counts' = EmptyMap
    /\ od_counts' = EmptyMap
    /\ od_vehicles' = EmptyMap
    /\ total_vehicles' = Len(order)
    /\ valid_movement_vehicles' = 0
    /\ undefined_filtered_count' = 0
    /\ pos' = 1
    /\ pc' = "pass2"
    /\ UNCHANGED <<trajectory_data, order, lane_sequence_to_movement_map, result>>

CurrentCounters ==
    Counters(movement_counts, od_counts, od_vehicles, valid_movement_vehicles,
             undefined_filtered_count)

\* one iteration of `for vid, track in trajectory_data.items()`
Visit ==
    /\ pc = "pass2"
    /\ pos <= Len(order)
    /\ LET vid == order[pos]
           acc == VisitTrack(CurrentCounters, vid, trajectory_data[vid],
                             lane_sequence_to_movement_map,
                             global_min_frame, global_max_frame)
       IN  /\ movement_counts' = acc.movement_counts
           /\ od_counts' = acc.od_counts
           /\ od_vehicles' = acc.od_vehicles
           /\ valid_movement_vehicles' = acc.valid_movement_vehicles
           /\ undefined_filtered_count' = acc.undefined_filtered_count
    /\ pos' = pos + 1
    /\ UNCHANGED <<trajectory_data, order, lane_sequence_to_movement_map, pc,
                   global_min_frame, global_max_frame, total_vehicles, result>>

\* the loop is over: report and return movement_counts
Return ==
    /\ pc = "pass2"
    /\ pos > Len(order)
    /\ result' = movement_counts
    /\ pc' = "done"
    /\ UNCHANGED <<trajectory_data, order, lane_sequence_to_movement_map, pos,
                   global_min_frame, global_max_frame, movement_counts,
                   od_counts, od_vehicles, valid_movement_vehicles,
                   undefined_filtered_count, total_vehicles>>

MoveNext ==
    \/ Pass1Empty /\ UNCHANGED <<updVars, readVars, segVars>>
    \/ Pass1 /\ UNCHANGED <<updVars, readVars, segVars>>
    \/ Visit /\ UNCHANGED <<updVars, readVars, segVars>>
    \/ Return /\ UNCHANGED <<updVars, readVars, segVars>>

\* ------------------------------------------------------------------------
\* analysis_movement_data: properties
\* ------------------------------------------------------------------------

\* the tracks the second pass has visited so far
Visited == {order[i] : i \in 1..(pos - 1)}

\* lane_sequence is non-empty and its first and last elements convert
LaneOk(v) ==
    LET ls == trajectory_data[v].lane_sequence
    IN  Len(ls) > 0 /\ ls[1].ok /\ Last(ls).ok

KeyOf(v) ==
    LET ls == trajectory_data[v].lane_sequence
    IN  OdKey(ls[1].v, Last(ls).v)

LabelOf(v) ==
    IF KeyOf(v) \in DOMAIN lane_sequence_to_movement_map
    THEN lane_sequence_to_movement_map[KeyOf(v)]
    ELSE "Undefined"

TouchesBoundary(v) ==
    LET f == trajectory_data[v].frame_index
    IN  f[1] < global_min_frame + 3 \/ Last(f) > global_max_frame - 3

\* the precondition of C1: usable lane_sequence and non-empty frame_index
Pre(v) == LaneOk(v) /\ Len(trajectory_data[v].frame_index) > 0

\* how often identifier v is stored in od_vehicles[k]
OccursIn(k, v) ==
    Cardinality({i \in 1..Len(od_vehicles[k]) : od_vehicles[k][i] = v})

\* how often identifier v is stored in od_vehicles at all
RECURSIVE OccSum(_, _)
OccSum(keys, v) ==
    IF keys = {} THEN 0
    ELSE LET k == CHOOSE x \in keys : TRUE
         IN  OccursIn(k, v) + OccSum(keys \ {k}, v)

Occurrences(v) == OccSum(DOMAIN od_vehicles, v)

\* the counts are those of the tracks stored in od_vehicles
CountsMatchStored ==
    /\ \A l \in DOMAIN movement_counts :
          movement_counts[l] =
             Cardinality({v \in Visited : LaneOk(v) /\ Occurrences(v) = 1 /\ LabelOf(v) = l})
    /\ \A k \in DOMAIN od_counts :
          od_counts[k] =
             Cardinality({v \in Visited : LaneOk(v) /\ Occurrences(v) = 1 /\ KeyOf(v) = k})

\* every visited track of the precondition is filtered iff ToFilter(v),
\* and else stored once, under its od_key and movement label
FilteredExactly(ToFilter(_)) ==
    /\ undefined_filtered_count =
          Cardinality({v \in Visited : Pre(v) /\ ToFilter(v)})
    /\ \A v \in Visited : Pre(v) =>
          IF ToFilter(v)
          THEN Occurrences(v) = 0
          ELSE /\ Occurrences(v) = 1
               /\ KeyOf(v) \in DOMAIN od_vehicles
               /\ OccursIn(KeyOf(v), v) = 1
               /\ LabelOf(v) \in DOMAIN movement_counts
               /\ KeyOf(v) \in DOMAIN od_counts
    /\ CountsMatchStored

UnmappedAtBoundary(v) ==
    KeyOf(v) \notin DOMAIN lane_sequence_to_movement_map /\ TouchesBoundary(v)

UndefinedAtBoundary(v) == LabelOf(v) = "Undefined" /\ TouchesBoundary(v)

\* C1 as stated: a track with usable lane_sequence and non-empty frame_index
\* is boundary-filtered iff its od_key is absent from the map and it touches
\* the global frame boundary; otherwise it is counted once under its label.
C1_AsStated == FilteredExactly(UnmappedAtBoundary)

\* C1 amended: such a track is boundary-filtered iff its movement label is
\* "Undefined" (od_key absent from the map, or mapped to the label
\* "Undefined") and it touches the global frame boundary; otherwise it is
\* counted exactly once under its od_key and movement label.
C1_BoundaryFilter == FilteredExactly(UndefinedAtBoundary)

\* a filtered track, and a mapped track at the boundary that was counted
C1_Witness ==
    /\ pc = "done"
    /\ \E v, w \in Visited :
          /\ Pre(v) /\ UndefinedAtBoundary(v) /\ Occurrences(v) = 0
          /\ Pre(w) /\ TouchesBoundary(w) /\ LabelOf(w) # "Undefined"
          /\ OccursIn(KeyOf(w), w) = 1

\* the whole function on the track mapping iterated in order ord
RECURSIVE SecondPass(_, _, _, _, _, _)
SecondPass(acc, data, ord, lmap, gmin, gmax) ==
    IF ord = <<>> THEN acc
    ELSE SecondPass(VisitTrack(acc, Head(ord), data[Head(ord)], lmap, gmin, gmax),
                    data, Tail(ord), lmap, gmin, gmax)

Analyse(data, ord, lmap) ==
    IF StartFrames(data, ord) = <<>> THEN ZeroCounters
    ELSE SecondPass(ZeroCounters, data, ord, lmap,
                    MinOf(StartFrames(data, ord)), MaxOf(EndFrames(data, ord)))

AscendingOrder == [i \in 1..NumTracks |-> i]

\* C2: the counts the run produced under its iteration order are those of a
\* run over the same tracks and metadata in ascending identifier order
C2_OrderIndependent ==
    pc = "done" =>
       LET r == Analyse(trajectory_data, AscendingOrder, lane_sequence_to_movement_map)
       IN  /\ movement_counts = r.movement_counts
           /\ od_counts = r.od_counts
           /\ undefined_filtered_count = r.undefined_filtered_count
           /\ result = r.movement_counts

\* a run in another order than the ascending one that filtered and counted
C2_Witness ==
    /\ pc = "done"
    /\ order # AscendingOrder
    /\ undefined_filtered_count > 0
    /\ SumValues(movement_counts) > 0

RECURSIVE LenSum(_, _)
LenSum(f, keys) ==
    IF keys = {} THEN 0
    ELSE LET k == CHOOSE x \in keys : TRUE
         IN  Len(f[k]) + LenSum(f, keys \ {k})

\* the tracks an iteration leaves without counting or filtering them
Skipped(v) ==
    \/ ~LaneOk(v)
    \/ LabelOf(v) = "Undefined" /\ Len(trajectory_data[v].frame_index) = 0

\* C10: after every iteration of the second pass the aggregates agree
C10_Aggregates ==
    LET counted == SumValues(movement_counts) IN
    /\ counted = SumValues(od_counts)
    /\ counted = LenSum(od_vehicles, DOMAIN od_vehicles)
    /\ valid_movement_vehicles = counted - Get(movement_counts, "Undefined", 0)
    /\ \A v \in VehicleIds : Occurrences(v) <= 1
    /\ counted + undefined_filtered_count + Cardinality({v \in Visited : Skipped(v)})
          = Cardinality(Visited)
    /\ pc = "done" /\ total_vehicles > 0 =>
          counted + undefined_filtered_count <= total_vehicles

\* a finished pass that counted, filtered and skipped
C10_Witness ==
    /\ pc = "done"
    /\ SumValues(movement_counts) > 0
    /\ undefined_filtered_count + Cardinality({v \in Visited : Skipped(v)}) > 0
    /\ Cardinality(Visited) = NumTracks

\* ------------------------------------------------------------------------
\* The dataset_meta codec: json.dumps(ensure_ascii=False), str.encode('utf-8'),
\* bytes.decode('utf-8'), json.loads
\* ------------------------------------------------------------------------

\* A str is a sequence of code points, each a TLA+ string: the printable
\* ASCII characters, "U+00E9" (a non-ASCII character) and "U+D800" (a lone
\* surrogate, which json.load yields for the escape \ud800).
\* A bytes value is a sequence of integers 0..255.
\* A JSON value is a number, a str, a list or an object; an object keeps its
\* members in insertion order, as a sequence of <<key, value>>.
Num(n) == [t |-> "num", n |-> n, s |-> <<>>, o |-> <<>>]
Str(s) == [t |-> "str", n |-> 0, s |-> s, o |-> <<>>]
Arr(a) == [t |-> "arr", n |-> 0, s |-> <<>>, o |-> a]
Obj(o) == [t |-> "obj", n |-> 0, s |-> <<>>, o |-> o]

\* the printable ASCII characters, code points 32..126, in order (the grave
\* accent, code point 96, is written "U+0060")
AsciiTable == <<
      " ", "!", "\"", "#", "$", "%", "&", "'", "(", ")", "*", "+",
      ",", "-", ".", "/", "0", "1", "2", "3", "4", "5", "6", "7",
      "8", "9", ":", ";", "<", "=", ">", "?", "@", "A", "B", "C",
      "D", "E", "F", "G", "H", "I", "J", "K", "L", "M", "N", "O",
      "P", "Q", "R", "S", "T", "U", "V", "W", "X", "Y", "Z", "[",
      "\\", "]", "^", "_", "U+0060", "a", "b", "c", "d", "e", "f", "g",
      "h", "i", "j", "k", "l", "m", "n", "o", "p", "q", "r", "s",
      "t", "u", "v", "w", "x", "y", "z", "{", "|", "}", "~" >>

AsciiChars == Range(AsciiTable)

\* ord(c) of a printable ASCII character
AsciiCode(c) == 31 + (CHOOSE i \in 1..Len(AsciiTable) : AsciiTable[i] = c)

Ok(v) == [ok |-> TRUE, v |-> v]
Failed == [ok |-> FALSE, v |-> <<>>]

\* the UTF-8 bytes of one code point; a lone surrogate has none
\* (UnicodeEncodeError: surrogates not allowed)
Utf8Char(c) ==
    IF c \in AsciiChars THEN Ok(<<AsciiCode(c)>>)
    ELSE IF c = "U+00E9" THEN Ok(<<195, 169>>)
    ELSE Failed

\* str.encode('utf-8'): the code points encoded one by one (the text is
\* halved rather than walked, to keep the evaluation shallow)
RECURSIVE Utf8Encode(_)
Utf8Encode(text) ==
    IF Len(text) = 0 THEN Ok(<<>>)
    ELSE IF Len(text) = 1 THEN Utf8Char(text[1])
    ELSE LET h == Len(text) \div 2
             a == Utf8Encode(SubSeq(text, 1, h))
             b == Utf8Encode(SubSeq(text, h + 1, Len(text)))
         IN  IF a.ok /\ b.ok THEN Ok(a.v \o b.v) ELSE Failed

\* a continuation byte of a multi-byte UTF-8 sequence
IsContinuation(b) == b >= 128 /\ b <= 191

\* the code point of one UTF-8 unit (a lead byte and its continuation bytes)
Utf8Unit(bytes) ==
    IF Len(bytes) = 1 /\ bytes[1] >= 32 /\ bytes[1] <= 126
    THEN Ok(<<AsciiTable[bytes[1] - 31]>>)
    ELSE IF bytes = <<195, 169>> THEN Ok(<<"U+00E9">>)
    ELSE Failed

\* bytes.decode('utf-8'): fails (UnicodeDecodeError) on invalid UTF-8; the
\* bytes are halved at a lead byte rather than walked
RECURSIVE Utf8Decode(_)
Utf8Decode(bytes) ==
    IF Len(bytes) = 0 THEN Ok(<<>>)
    ELSE LET leads == {k \in 2..Len(bytes) : ~IsContinuation(bytes[k])} IN
         IF leads = {} THEN Utf8Unit(bytes)
         ELSE LET h == Len(bytes) \div 2
                  p == CHOOSE k \in leads :
                          \A j \in leads : (k - h) * (k - h) <= (j - h) * (j - h)
                  a == Utf8Decode(SubSeq(bytes, 1, p - 1))
                  b == Utf8Decode(SubSeq(bytes, p, Len(bytes)))
              IN  IF a.ok /\ b.ok THEN Ok(a.v \o b.v) ELSE Failed

\* the body of a JSON string literal: quote and backslash escaped, non-ASCII
\* characters written as they are (ensure_ascii=False)
RECURSIVE Escape(_)
Escape(s) ==
    IF s = <<>> THEN <<>>
    ELSE (IF Head(s) = "\"" THEN <<"\\", "\"">>
          ELSE IF Head(s) = "\\" THEN <<"\\", "\\">>
          ELSE <<Head(s)>>) \o Escape(Tail(s))

DumpStr(s) == <<"\"">> \o Escape(s) \o <<"\"">>

RECURSIVE NatText(_)
NatText(n) ==
    IF n < 10 THEN <<Digit(n)>> ELSE NatText(n \div 10) \o <<Digit(n % 10)>>

DumpNum(n) == IF n < 0 THEN <<"-">> \o NatText(0 - n) ELSE NatText(n)

\* json.dumps of a value: members separated by ", ", key and value by ": "
RECURSIVE DumpValue(_)
RECURSIVE DumpItems(_)
RECURSIVE DumpMembers(_)
DumpItems(a) ==
    IF a = <<>> THEN <<>>
    ELSE DumpValue(Head(a))
         \o (IF Tail(a) = <<>> THEN <<>> ELSE <<",", " ">> \o DumpItems(Tail(a)))

DumpMembers(o) ==
    IF o = <<>> THEN <<>>
    ELSE DumpStr(Head(o)[1]) \o <<":", " ">> \o DumpValue(Head(o)[2])
         \o (IF Tail(o) = <<>> THEN <<>> ELSE <<",", " ">> \o DumpMembers(Tail(o)))

DumpValue(v) ==
    CASE v.t = "num" -> DumpNum(v.n)
      [] v.t = "str" -> DumpStr(v.s)
      [] v.t = "arr" -> <<"[">> \o DumpItems(v.o) \o <<"]">>
      [] v.t = "obj" -> <<"{">> \o DumpMembers(v.o) \o <<"}">>

JsonDumps(v) == DumpValue(v)

\* the parser's results: a value and the index after it, or a failure
Parsed(v, next) == [ok |-> TRUE, v |-> v, next |-> next]
ParseError == [ok |-> FALSE, v |-> Num(0), next |-> 0]

Digits == {"0", "1", "2", "3", "4", "5", "6", "7", "8", "9"}

DigitValue(c) == CHOOSE d \in 0..9 : Digit(d) = c

RECURSIVE SkipWs(_, _)
SkipWs(t, i) == IF i <= Len(t) /\ t[i] = " " THEN SkipWs(t, i + 1) ELSE i

\* the rest of a string literal whose opening quote precedes index i
RECURSIVE ParseString(_, _, _)
ParseString(t, i, acc) ==
    IF i > Len(t) THEN ParseError
    ELSE IF t[i] = "\"" THEN Parsed(Str(acc), i + 1)
    ELSE IF t[i] = "\\"
         THEN IF i + 1 <= Len(t) /\ t[i + 1] \in {"\"", "\\", "/"}
              THEN ParseString(t, i + 2, Append(acc, t[i + 1]))
              ELSE ParseError
    ELSE ParseString(t, i + 1, Append(acc, t[i]))

RECURSIVE ParseDigits(_, _, _)
ParseDigits(t, i, n) ==
    IF i <= Len(t) /\ t[i] \in Digits
    THEN ParseDigits(t, i + 1, 10 * n + DigitValue(t[i]))
    ELSE Parsed(Num(n), i)

\* an integer literal: 0, or a non-zero digit and more digits
ParseNat(t, i) ==
    IF i > Len(t) \/ t[i] \notin Digits THEN ParseError
    ELSE IF t[i] = "0" THEN Parsed(Num(0), i + 1)
    ELSE ParseDigits(t, i, 0)

\* an object's member list replaces the value of a key it has already
PutMember(o, key, v) ==
    IF \E j \in 1..Len(o) : o[j][1] = key
    THEN [j \in 1..Len(o) |-> IF o[j][1] = key THEN <<key, v>> ELSE o[j]]
    ELSE Append(o, <<key, v>>)

RECURSIVE ParseValue(_, _)
RECURSIVE ParseItems(_, _, _)
RECURSIVE ParseMembers(_, _, _)
\* the items of a list, index i0 at the start of an item
ParseItems(t, i0, acc) ==
    LET v == ParseValue(t, i0) IN
    IF ~v.ok THEN ParseError
    ELSE LET e == SkipWs(t, v.next) IN
         IF e > Len(t) THEN ParseError
         ELSE IF t[e] = "]" THEN Parsed(Arr(Append(acc, v.v)), e + 1)
         ELSE IF t[e] = "," THEN ParseItems(t, e + 1, Append(acc, v.v))
         ELSE ParseError

\* the members of an object, index i0 at the start of a key
ParseMembers(t, i0, acc) ==
    LET i == SkipWs(t, i0) IN
    IF i > Len(t) \/ t[i] # "\"" THEN ParseError
    ELSE LET k == ParseString(t, i + 1, <<>>) IN
         IF ~k.ok THEN ParseError
         ELSE LET c == SkipWs(t, k.next) IN
              IF c > Len(t) \/ t[c] # ":" THEN ParseError
              ELSE LET v == ParseValue(t, c + 1) IN
                   IF ~v.ok THEN ParseError
                   ELSE LET e == SkipWs(t, v.next)
                            members == PutMember(acc, k.v.s, v.v)
                        IN  IF e > Len(t) THEN ParseError
                            ELSE IF t[e] = "}" THEN Parsed(Obj(members), e + 1)
                            ELSE IF t[e] = "," THEN ParseMembers(t, e + 1, members)
                            ELSE ParseError

ParseValue(t, i0) ==
    LET i == SkipWs(t, i0) IN
    IF i > Len(t) THEN ParseError
    ELSE IF t[i] = "\"" THEN ParseString(t, i + 1, <<>>)
    ELSE IF t[i] = "{"
         THEN LET j == SkipWs(t, i + 1) IN
              IF j <= Len(t) /\ t[j] = "}" THEN Parsed(Obj(<<>>), j + 1)
              ELSE ParseMembers(t, i + 1, <<>>)
    ELSE IF t[i] = "["
         THEN LET j == SkipWs(t, i + 1) IN
              IF j <= Len(t) /\ t[j] = "]" THEN Parsed(Arr(<<>>), j + 1)
              ELSE ParseItems(t, i + 1, <<>>)
    ELSE IF t[i] = "-"
         THEN LET r == ParseNat(t, i + 1) IN
              IF r.ok THEN Parsed(Num(0 - r.v.n), r.next) ELSE ParseError
    ELSE ParseNat(t, i)

\* json.loads: one value and nothing but white space after it
JsonLoads(t) ==
    LET r == ParseValue(t, 1) IN
    IF r.ok /\ SkipWs(t, r.next) = Len(t) + 1 THEN Ok(r.v) ELSE Failed

\* json.dumps(new_meta_dict, ensure_ascii=False).encode('utf-8')
EncodeMeta(meta) == Utf8Encode(JsonDumps(meta))

\* json.loads(file_meta[b'dataset_meta'].decode('utf-8'))
DecodeMeta(bytes) ==
    LET text == Utf8Decode(bytes) IN
    IF text.ok THEN JsonLoads(text.v) ELSE Failed

\* ------------------------------------------------------------------------
\* update_parquet_meta: inputs
\* ------------------------------------------------------------------------

\* longest string value of the metadata
MaxStrLen == 1

\* the characters of the metadata's string values: a letter, the two
\* characters json.dumps escapes, a non-ASCII character, a lone surrogate
StrChars == {"a", "\"", "\\", "U+00E9", "U+D800"}

\* every string up to MaxStrLen, and one that mixes what needs care
Strings ==
    UNION {[1..n -> StrChars] : n \in 0..MaxStrLen}
    \cup {<<"\\", "\"", "U+00E9", "\\", "a", "\"">>}

K_location_name == <<"l", "o", "c", "a", "t", "i", "o", "n", "_", "n", "a", "m", "e">>
K_frame_interval ==
    <<"f", "r", "a", "m", "e", "_", "i", "n", "t", "e", "r", "v", "a", "l">>
K_unique_lane_ids ==
    <<"u", "n", "i", "q", "u", "e", "_", "l", "a", "n", "e", "_", "i", "d", "s">>
K_lane_map ==
    <<"l", "a", "n", "e", "_", "s", "e", "q", "u", "e", "n", "c", "e", "_", "t", "o",
      "_", "m", "o", "v", "e", "m", "e", "n", "t", "_", "m", "a", "p">>

\* the members a DatasetMeta object is made of
MetaMembers ==
    {<<K_location_name, Str(s)>> : s \in Strings}
    \cup {<<K_frame_interval, Num(n)>> : n \in {0, 12}}
    \cup {<<K_unique_lane_ids, Arr(a)>> : a \in {<<>>, <<Num(0 - 1), Num(10)>>}}
    \cup {<<K_lane_map, Obj(o)>> :
             o \in {<<>>, << <<(<<"1", "-", "2">>), Str(<<"L", "\"">>)>> >>}}

\* the metadata objects json.load can yield: up to two members, in any order
MetaObjs ==
    {Obj(<<>>)}
    \cup {Obj(<<m>>) : m \in MetaMembers}
    \cup {Obj(<<m[1], m[2]>>) :
             m \in {x \in MetaMembers \X MetaMembers : x[1][1] # x[2][1]}}

\* dataset_meta values a header may already hold
OldMeta == Obj(<< <<K_location_name, Str(<<"o", "l", "d">>)>>,
                  <<K_frame_interval, Num(3)>> >>)

\* A header is a dict from key to bytes (the keys stand for the bytes keys
\* of pyarrow). schema.metadata is None when the table has no header.
NoneMeta == [is_none |-> TRUE, kv |-> EmptyMap]
Meta(kv) == [is_none |-> FALSE, kv |-> kv]

Optional(key, values) == {EmptyMap} \cup {(key :> v) : v \in values}

Headers ==
    {NoneMeta}
    \cup {Meta(a @@ b @@ c) :
             a \in Optional("pandas", {<<255, 0>>}),
             b \in Optional("created_by", {<<112>>}),
             c \in Optional("dataset_meta",
                            {EncodeMeta(OldMeta).v, <<123, 255>>})}

\* ------------------------------------------------------------------------
\* update_parquet_meta: the state machine
\* ------------------------------------------------------------------------

\* a bug: only the new entry is kept
MergeDropsOthers(existing, new_bytes) == ("dataset_meta" :> new_bytes)

\* a bug: the new entry is not allowed to replace an existing one
MergeKeepsOld(existing, new_bytes) == existing @@ ("dataset_meta" :> new_bytes)

\* {**existing_meta, b'dataset_meta': new_bytes}
MergeMeta(existing, new_bytes) ==
    [k \in (DOMAIN existing) \cup {"dataset_meta"} |->
        IF k = "dataset_meta" THEN new_bytes ELSE existing[k]]

\* table.schema.metadata or {}
OrEmpty(meta) == IF meta.is_none \/ meta.kv = EmptyMap THEN EmptyMap ELSE meta.kv

UpdIdle ==
    /\ pc_u = "idle"
    /\ parquet_header = NoneMeta
    /\ output_path = "None"
    /\ output_header = NoneMeta
    /\ new_meta_dict = Obj(<<>>)
    /\ new_meta_json_str = <<>>
    /\ table_meta = NoneMeta
    /\ existing_meta = EmptyMap
    /\ updated_meta = EmptyMap

UpdStart ==
    /\ pc_u = "check"
    /\ parquet_header \in Headers
    /\ output_path \in {"None", "out.parquet"}
    /\ output_header = NoneMeta
    /\ new_meta_dict = Obj(<<>>)
    /\ new_meta_json_str = <<>>
    /\ table_meta = NoneMeta
    /\ existing_meta = EmptyMap
    /\ updated_meta = EmptyMap

\* the two existence checks: FileNotFoundError when a path does not exist
CheckPaths ==
    /\ pc_u = "check"
    /\ \E parquet_exists, json_exists \in BOOLEAN :
          pc_u' = IF parquet_exists /\ json_exists THEN "load" ELSE "error"
    /\ UNCHANGED <<parquet_header, output_path, output_header, new_meta_dict,
                   new_meta_json_str, table_meta, existing_meta, updated_meta>>

\* json.load of the JSON file, then json.dumps(ensure_ascii=False)
LoadJson ==
    /\ pc_u = "load"
    /\ \E m \in MetaObjs :
          /\ new_meta_dict' = m
          /\ new_meta_json_str' = JsonDumps(m)
    /\ pc_u' = "read"
    /\ UNCHANGED <<parquet_header, output_path, output_header, table_meta,
                   existing_meta, updated_meta>>

\* json.load raises on a file that is not JSON
LoadJsonFails ==
    /\ pc_u = "load"
    /\ pc_u' = "error"
    /\ UNCHANGED <<parquet_header, output_path, output_header, new_meta_dict,
                   new_meta_json_str, table_meta, existing_meta, updated_meta>>

\* pq.read_table and existing_meta = table.schema.metadata or {}
ReadTable ==
    /\ pc_u = "read"
    /\ table_meta' = parquet_header
    /\ existing_meta' = OrEmpty(parquet_header)
    /\ pc_u' = "merge"
    /\ UNCHANGED <<parquet_header, output_path, output_header, new_meta_dict,
                   new_meta_json_str, updated_meta>>

\* updated_meta = {**existing_meta, b'dataset_meta': ...encode('utf-8')}
Merge ==
    /\ pc_u = "merge"
    /\ LET new_bytes == Utf8Encode(new_meta_json_str) IN
       IF new_bytes.ok
       THEN /\ updated_meta' = MergeMeta(existing_meta, new_bytes.v)
            /\ pc_u' = "merged"
       ELSE /\ updated_meta' = updated_meta
            /\ pc_u' = "error"
    /\ UNCHANGED <<parquet_header, output_path, output_header, new_meta_dict,
                   new_meta_json_str, table_meta, existing_meta>>

\* replace_schema_metadata and pq.write_table to output_path or, when it is
\* None, over the input file
WriteTable ==
    /\ pc_u = "merged"
    /\ IF output_path = "None"
       THEN /\ parquet_header' = Meta(updated_meta)
            /\ output_header' = output_header
       ELSE /\ output_header' = Meta(updated_meta)
            /\ parquet_header' = parquet_header
    /\ pc_u' = "written"
    /\ UNCHANGED <<output_path, new_meta_dict, new_meta_json_str, table_meta,
                   existing_meta, updated_meta>>

UpdNext ==
    \/ CheckPaths /\ UNCHANGED <<moveVars, readVars, segVars>>
    \/ LoadJson /\ UNCHANGED <<moveVars, readVars, segVars>>
    \/ LoadJsonFails /\ UNCHANGED <<moveVars, readVars, segVars>>
    \/ ReadTable /\ UNCHANGED <<moveVars, readVars, segVars>>
    \/ Merge /\ UNCHANGED <<moveVars, readVars, segVars>>
    \/ WriteTable /\ UNCHANGED <<moveVars, readVars, segVars>>

\* ------------------------------------------------------------------------
\* update_parquet_meta: properties
\* ------------------------------------------------------------------------

Merged == pc_u \in {"merged", "written"}

\* C3: the merge keeps every other key of the existing header with its
\* value, adds no key but dataset_meta, and leaves the existing header as
\* it was read
C3_MergeKeepsOtherKeys ==
    Merged =>
       /\ \A k \in (DOMAIN existing_meta) \ {"dataset_meta"} :
             k \in DOMAIN updated_meta /\ updated_meta[k] = existing_meta[k]
       /\ DOMAIN updated_meta = (DOMAIN existing_meta) \cup {"dataset_meta"}
       /\ existing_meta = OrEmpty(table_meta)
       /\ pc_u = "merged" => parquet_header = table_meta

\* a merge into a header that holds two other keys and an old dataset_meta
C3_Witness ==
    /\ pc_u = "merged"
    /\ DOMAIN existing_meta = {"pandas", "created_by", "dataset_meta"}
    /\ updated_meta["dataset_meta"] # existing_meta["dataset_meta"]
    /\ updated_meta["pandas"] = <<255, 0>>

\* C4: decoding the merged header's dataset_meta yields the new metadata,
\* whether or not the header held a dataset_meta before
C4_MergeIsReplace ==
    Merged =>
       /\ "dataset_meta" \in DOMAIN updated_meta
       /\ LET d == DecodeMeta(updated_meta["dataset_meta"])
          IN  d.ok /\ d.v = new_meta_dict

\* an old dataset_meta with two members replaced by a new one that has
\* neither and whose string needs escaping and a multi-byte encoding
C4_Witness ==
    /\ pc_u = "merged"
    /\ "dataset_meta" \in DOMAIN existing_meta
    /\ DecodeMeta(existing_meta["dataset_meta"]).ok
    /\ DecodeMeta(existing_meta["dataset_meta"]).v = OldMeta
    /\ new_meta_dict = Obj(<< <<K_lane_map, Obj(<<>>)>>,
                              <<K_location_name,
                                Str(<<"\\", "\"", "U+00E9", "\\", "a", "\"">>)>> >>)

\* the entry is inserted into a header that had none
C4_WitnessInserted ==
    /\ pc_u = "written"
    /\ "dataset_meta" \notin DOMAIN existing_meta
    /\ new_meta_dict # Obj(<<>>)

\* ------------------------------------------------------------------------
\* read_parquet: inputs
\* ------------------------------------------------------------------------

\* most rows of the table
MaxRows == 3

\* the columns a table may have; a DataFrame gives every row every column
ColumnSets == {cs \cup {"frame_index"} : cs \in SUBSET {"vehicle_id", "pixel_corners"}}

\* the values of the columns
VehicleIdValues == {1, 2}
FrameIndexValues == {<<0, 1>>, <<5>>}
PixelCornersValues == {<< <<0, 0>>, <<4, 0>>, <<4, 2>>, <<0, 2>>, <<0, 0>> >>}

\* the rows of a table with columns cs
Rows(cs) ==
    CASE cs = {"frame_index"} -> [frame_index : FrameIndexValues]
      [] cs = {"frame_index", "vehicle_id"} ->
            [frame_index : FrameIndexValues, vehicle_id : VehicleIdValues]
      [] cs = {"frame_index", "pixel_corners"} ->
            [frame_index : FrameIndexValues, pixel_corners : PixelCornersValues]
      [] cs = {"frame_index", "pixel_corners", "vehicle_id"} ->
            [frame_index : FrameIndexValues, pixel_corners : PixelCornersValues,
             vehicle_id : VehicleIdValues]

Tables(cs) == UNION {[1..n -> Rows(cs)] : n \in 0..MaxRows}

\* the headers of the files read: no header, no dataset_meta, a dataset_meta
\* that decodes to an object, one that decodes to a list, one that is not JSON
ReadHeaders ==
    { NoneMeta,
      Meta(("pandas" :> <<255, 0>>)),
      Meta(("dataset_meta" :> EncodeMeta(OldMeta).v)),
      Meta(("pandas" :> <<255, 0>>) @@ ("dataset_meta" :> EncodeMeta(Obj(<<>>)).v)),
      Meta(("dataset_meta" :> EncodeMeta(Arr(<<Num(1)>>)).v)),
      Meta(("dataset_meta" :> <<123, 255>>)) }

\* ------------------------------------------------------------------------
\* read_parquet: the state machine
\* ------------------------------------------------------------------------

Unbound == [bound |-> FALSE, v |-> Obj(<<>>)]
Bound(v) == [bound |-> TRUE, v |-> v]

\* del record['vehicle_id']
DropId(record) == [c \in (DOMAIN record) \ {"vehicle_id"} |-> record[c]]

\* a bug: a track already stored is not replaced
StoreFirst(tracks, vid, fields) ==
    IF vid \in DOMAIN tracks THEN tracks ELSE Put(tracks, vid, fields)

\* restored_tracks[vid] = record
Store(tracks, vid, fields) == Put(tracks, vid, fields)

\* a bug: the identifier read without the guard
RecordStepNoGuard(tracks, record) ==
    IF "vehicle_id" \in DOMAIN record
    THEN [exc |-> "none", tracks |-> Store(tracks, record["vehicle_id"], DropId(record))]
    ELSE [exc |-> "KeyError: 'vehicle_id'", tracks |-> tracks]

\* the body of `for record in records`
RecordStep(tracks, record) ==
    IF "vehicle_id" \in DOMAIN record
    THEN [exc |-> "none", tracks |-> Store(tracks, record["vehicle_id"], DropId(record))]
    ELSE [exc |-> "none", tracks |-> tracks]

ReadIdle ==
    /\ pc_r = "idle"
    /\ raised = "none"
    /\ file_meta = NoneMeta
    /\ columns = {}
    /\ records = <<>>
    /\ rec_idx = 1
    /\ restored_meta = Unbound
    /\ restored_tracks = EmptyMap
    /\ returned = FALSE

ReadStart ==
    /\ pc_r = "meta"
    /\ raised = "none"
    /\ file_meta \in ReadHeaders
    /\ columns \in ColumnSets
    /\ records \in Tables(columns)
    /\ rec_idx = 1
    /\ restored_meta = Unbound
    /\ restored_tracks = EmptyMap
    /\ returned = FALSE

\* step 2: the metadata of the header
\*   `b'dataset_meta' in None` raises TypeError; a value that is not UTF-8
\*   JSON raises; restored_meta.get raises on a value that is no object;
\*   without the key there is only the warning and restored_meta stays unbound
ExtractMeta ==
    /\ pc_r = "meta"
    /\ IF file_meta.is_none
       THEN /\ raised' = "TypeError" /\ pc_r' = "error"
            /\ restored_meta' = restored_meta
       ELSE IF "dataset_meta" \in DOMAIN file_meta.kv
       THEN LET d == DecodeMeta(file_meta.kv["dataset_meta"]) IN
            IF ~d.ok
            THEN /\ raised' = "ValueError" /\ pc_r' = "error"
                 /\ restored_meta' = restored_meta
            ELSE IF d.v.t # "obj"
            THEN /\ raised' = "AttributeError" /\ pc_r' = "error"
                 /\ restored_meta' = Bound(d.v)
            ELSE /\ raised' = raised /\ pc_r' = "frame"
                 /\ restored_meta' = Bound(d.v)
       ELSE /\ raised' = raised /\ pc_r' = "frame"
            /\ restored_meta' = restored_meta
    /\ UNCHANGED <<file_meta, columns, records, rec_idx, restored_tracks, returned>>

\* step 3: to_pandas and df_read.iloc[0]['pixel_corners']
SampleCorners ==
    /\ pc_r = "frame"
    /\ IF Len(records) = 0
       THEN raised' = "IndexError" /\ pc_r' = "error"
       ELSE IF "pixel_corners" \notin columns
       THEN raised' = "KeyError: 'pixel_corners'" /\ pc_r' = "error"
       ELSE raised' = raised /\ pc_r' = "records"
    /\ UNCHANGED <<file_meta, columns, records, rec_idx, restored_meta,
                   restored_tracks, returned>>

\* step 4: one iteration of `for record in records`
ConvertRecord ==
    /\ pc_r = "records"
    /\ rec_idx <= Len(records)
    /\ LET step == RecordStep(restored_tracks, records[rec_idx]) IN
       /\ restored_tracks' = step.tracks
       /\ raised' = step.exc
       /\ pc_r' = IF step.exc = "none" THEN pc_r ELSE "error"
    /\ rec_idx' = rec_idx + 1
    /\ UNCHANGED <<file_meta, columns, records, restored_meta, returned>>

\* the prints after the loop and `return restored_tracks, restored_meta`
ReturnTracks ==
    /\ pc_r = "records"
    /\ rec_idx > Len(records)
    /\ IF restored_meta.bound
       THEN raised' = raised /\ pc_r' = "done" /\ returned' = TRUE
       ELSE raised' = "UnboundLocalError" /\ pc_r' = "error" /\ returned' = returned
    /\ UNCHANGED <<file_meta, columns, records, rec_idx, restored_meta, restored_tracks>>

ReadNext ==
    \/ ExtractMeta /\ UNCHANGED <<moveVars, updVars, segVars>>
    \/ SampleCorners /\ UNCHANGED <<moveVars, updVars, segVars>>
    \/ ConvertRecord /\ UNCHANGED <<moveVars, updVars, segVars>>
    \/ ReturnTracks /\ UNCHANGED <<moveVars, updVars, segVars>>

\* ------------------------------------------------------------------------
\* read_parquet: properties
\* ------------------------------------------------------------------------

\* the header is there and has no dataset_meta entry
NoEmbeddedMeta == ~file_meta.is_none /\ "dataset_meta" \notin DOMAIN file_meta.kv

\* the frame has a first row with pixel_corners
FrameUsable == Len(records) > 0 /\ "pixel_corners" \in columns

\* C5 as stated: without a dataset_meta entry read_parquet does not fail, and
\* it returns the track mapping
C5_AsStated ==
    NoEmbeddedMeta /\ FrameUsable =>
       /\ pc_r # "error"
       /\ raised = "none"

\* the rows converted so far
Converted == 1..(rec_idx - 1)

\* C6 as stated: rows without vehicle_id end the reconstruction in an error
C6_AsStated ==
    "vehicle_id" \notin columns /\ Len(records) > 0 /\ rec_idx > 1 => pc_r = "error"

\* C6 amended: rows without vehicle_id raise no error; each is skipped, so
\* the track mapping omits them (it stays empty) and the loop runs to its end
C6_MissingIdSkipped ==
    "vehicle_id" \notin columns =>
       /\ restored_tracks = EmptyMap
       /\ raised # "KeyError: 'vehicle_id'"
       /\ rec_idx > 1 /\ rec_idx <= Len(records) => pc_r = "records"

\* all rows of a table without vehicle_id were passed over and the function
\* returned
C6_Witness ==
    /\ "vehicle_id" \notin columns
    /\ Len(records) = MaxRows
    /\ rec_idx > Len(records)
    /\ pc_r = "done"
    /\ restored_tracks = EmptyMap

\* the last converted row with identifier v
LastRowOf(v) ==
    CHOOSE i \in Converted :
       /\ records[i]["vehicle_id"] = v
       /\ \A j \in Converted : records[j]["vehicle_id"] = v => j <= i

\* C7: the keys of the track mapping are the identifiers of the rows, and
\* each identifier has the columns of its last row but vehicle_id, unchanged
C7_Reconstruction ==
    "vehicle_id" \in columns =>
       /\ DOMAIN restored_tracks = {records[i]["vehicle_id"] : i \in Converted}
       /\ \A v \in DOMAIN restored_tracks :
             /\ DOMAIN restored_tracks[v] = columns \ {"vehicle_id"}
             /\ \A c \in columns \ {"vehicle_id"} :
                   restored_tracks[v][c] = records[LastRowOf(v)][c]

\* three rows, the first and the last with one identifier and different
\* columns: the last one kept, the middle one under its own identifier
C7_Witness ==
    /\ pc_r = "done"
    /\ "vehicle_id" \in columns
    /\ Len(records) = 3
    /\ records[1]["vehicle_id"] = records[3]["vehicle_id"]
    /\ records[1]["vehicle_id"] # records[2]["vehicle_id"]
    /\ records[1]["frame_index"] # records[3]["frame_index"]
    /\ restored_tracks[records[3]["vehicle_id"]]["frame_index"] = records[3]["frame_index"]
    /\ Cardinality(DOMAIN restored_tracks) = 2

\* ------------------------------------------------------------------------
\* plot_trajectory_spacetime_diagram: inputs
\* ------------------------------------------------------------------------

\* most samples of a track
MaxSamples == 3

\* vehicle_length when the track has none (5.0)
DEFAULT_VEHICLE_LENGTH == 5

\* lane_id sequences: all up to MaxSamples samples, and one trajectory with
\* two lane changes
LaneIdSeqs ==
    UNION {[1..n -> {1, 2}] : n \in 0..MaxSamples} \cup {<<1, 1, 2, 2, 1>>}

\* A track of the segment builder. Its lane_id is lane_ids; n, k and m are
\* the lengths of frame_index, frenet_s and frenet_s_speed. Frames count up
\* from 0; a track that starts in lane 1 runs up the axis and has no
\* vehicle_length, one that starts in lane 2 runs down and has length 4;
\* speeds alternate in sign. vehicle_length is <<>> when absent.
SegTrack(lane_ids, n, k, m) ==
    LET up == lane_ids = <<>> \/ lane_ids[1] = 1 IN
    [frame_index |-> [j \in 1..n |-> j - 1],
     lane_id |-> lane_ids,
     frenet_s |-> [j \in 1..k |-> IF up THEN 10 * j ELSE 10 * (k - j + 1)],
     frenet_s_speed |-> [j \in 1..m |-> IF j % 2 = 1 THEN 0 - j ELSE j],
     vehicle_length |-> IF up THEN <<>> ELSE <<4>>]

\* tracks whose sample-aligned fields have one length
ConsistentTracks == {SegTrack(l, Len(l), Len(l), Len(l)) : l \in LaneIdSeqs}

\* tracks with one field a sample shorter or longer than the others
InconsistentTracks ==
    {SegTrack(l, Len(l) + 1, Len(l) + 1, Len(l) + 1) : l \in LaneIdSeqs}
    \cup {SegTrack(l, Len(l) - 1, Len(l) - 1, Len(l) - 1) :
             l \in {x \in LaneIdSeqs : Len(x) > 0}}
    \cup {SegTrack(l, Len(l), Len(l) - 1, Len(l)) : l \in {x \in LaneIdSeqs : Len(x) > 0}}
    \cup {SegTrack(l, Len(l), Len(l), Len(l) - 1) : l \in {x \in LaneIdSeqs : Len(x) > 0}}

SegTracks == ConsistentTracks \cup InconsistentTracks

\* ------------------------------------------------------------------------
\* plot_trajectory_spacetime_diagram: pure parts
\* ------------------------------------------------------------------------

\* track.get('vehicle_length', 5.0)
VehicleLength(track) ==
    IF track.vehicle_length = <<>> THEN DEFAULT_VEHICLE_LENGTH
    ELSE track.vehicle_length[1]

\* -1 when the last frenet_s is below the first, else 1
DirectionSign(track) ==
    LET s_coords == track.frenet_s IN
    IF Len(s_coords) > 1 /\ Last(s_coords) < s_coords[1] THEN 0 - 1 ELSE 1

\* head_s = s_coords + direction_sign * (vehicle_length / 2.0), in half
\* metres to stay in the integers: one entry per frenet_s sample
HeadS(track) ==
    [j \in 1..Len(track.frenet_s) |->
        2 * track.frenet_s[j] + DirectionSign(track) * VehicleLength(track)]

\* times = frames * frame_interval
Times(track, interval) ==
    [j \in 1..Len(track.frame_index) |-> track.frame_index[j] * interval]

Abs(x) == IF x < 0 THEN 0 - x ELSE x

\* what one iteration adds to lines, speeds, lc_points_x and lc_points_y,
\* and the exception that ends it (an IndexError leaves what was appended
\* before it)
Effect(exc, l, v, x, y) == [exc |-> exc, lines |-> l, speeds |-> v, xs |-> x, ys |-> y]

NoEffect == Effect("none", <<>>, <<>>, <<>>, <<>>)

IndexError == Effect("IndexError", <<>>, <<>>, <<>>, <<>>)

\* a bug: the cut-in point taken at the sample before the lane change
CutInAtCurrent(times, head_s, i) ==
    IF i > Len(head_s) THEN Effect("IndexError", <<>>, <<>>, <<times[i]>>, <<>>)
    ELSE Effect("none", <<>>, <<>>, <<times[i]>>, <<head_s[i]>>)

\* Cut-in: lc_points_x.append(times[i+1]); lc_points_y.append(head_s[i+1])
CutIn(times, head_s, i) ==
    IF i + 1 > Len(head_s) THEN Effect("IndexError", <<>>, <<>>, <<times[i + 1]>>, <<>>)
    ELSE Effect("none", <<>>, <<>>, <<times[i + 1]>>, <<head_s[i + 1]>>)

\* Cut-out: lc_points_x.append(times[i]); lc_points_y.append(head_s[i])
CutOut(times, head_s, i) ==
    IF i > Len(head_s) THEN Effect("IndexError", <<>>, <<>>, <<times[i]>>, <<>>)
    ELSE Effect("none", <<>>, <<>>, <<times[i]>>, <<head_s[i]>>)

\* Case 1: the segment p1, p2 and the speed abs(s_speeds[i])
InLane(times, head_s, s_speeds, i) ==
    IF i + 1 > Len(head_s) THEN IndexError
    ELSE LET seg == << <<times[i], head_s[i]>>, <<times[i + 1], head_s[i + 1]>> >> IN
         IF i > Len(s_speeds) THEN Effect("IndexError", <<seg>>, <<>>, <<>>, <<>>)
         ELSE Effect("none", <<seg>>, <<Abs(s_speeds[i])>>, <<>>, <<>>)

\* the body of `for i in range(len(frames) - 1)`, for the samples i and i+1
\* (counted from 1)
PairEffect(track, interval, target_lane_id, i) ==
    LET lane_ids == track.lane_id
        times == Times(track, interval)
        head_s == HeadS(track)
    IN  IF i + 1 > Len(lane_ids) THEN IndexError
        ELSE LET curr_lane == lane_ids[i]
                 next_lane == lane_ids[i + 1]
             IN  IF curr_lane = target_lane_id /\ next_lane = target_lane_id
                 THEN InLane(times, head_s, track.frenet_s_speed, i)
                 ELSE IF curr_lane = target_lane_id /\ next_lane # target_lane_id
                 THEN CutOut(times, head_s, i)
                 ELSE IF curr_lane # target_lane_id /\ next_lane = target_lane_id
                 THEN CutIn(times, head_s, i)
                 ELSE NoEffect

\* the tracks the segment loop reports as inconsistent: it has no such check
ReportedInconsistent == {}

\* ------------------------------------------------------------------------
\* plot_trajectory_spacetime_diagram: the state machine
\* ------------------------------------------------------------------------

SegIdle ==
    /\ pc_s = "idle"
    /\ raised_s = "none"
    /\ seg_tracks = <<>>
    /\ unique_lane_ids = <<>>
    /\ frame_interval = 1
    /\ lane_idx = 1
    /\ track_idx = 1
    /\ pair_idx = 1
    /\ lines = <<>>
    /\ speeds = <<>>
    /\ lc_points_x = <<>>
    /\ lc_points_y = <<>>
    /\ saved = <<>>

SegStart ==
    /\ pc_s = "lanes"
    /\ raised_s = "none"
    /\ seg_tracks \in [1..2 -> SegTracks]
    /\ unique_lane_ids \in {<<0 - 1, 1>>, <<2>>}
    /\ frame_interval = 2
    /\ lane_idx = 1
    /\ track_idx = 1
    /\ pair_idx = 1
    /\ lines = <<>>
    /\ speeds = <<>>
    /\ lc_points_x = <<>>
    /\ lc_points_y = <<>>
    /\ saved = <<>>

\* `if target_lane_id == -1: continue`
SkipInvalidLane ==
    /\ pc_s = "lanes"
    /\ lane_idx <= Len(unique_lane_ids)
    /\ unique_lane_ids[lane_idx] = 0 - 1
    /\ lane_idx' = lane_idx + 1
    /\ UNCHANGED <<pc_s, raised_s, seg_tracks, unique_lane_ids, frame_interval,
                   track_idx, pair_idx, lines, speeds, lc_points_x, lc_points_y,
                   saved>>

\* a target lane: the four lists start empty
StartLane ==
    /\ pc_s = "lanes"
    /\ lane_idx <= Len(unique_lane_ids)
    /\ unique_lane_ids[lane_idx] # 0 - 1
    /\ lines' = <<>>
    /\ speeds' = <<>>
    /\ lc_points_x' = <<>>
    /\ lc_points_y' = <<>>
    /\ track_idx' = 1
    /\ pair_idx' = 1
    /\ pc_s' = "tracks"
    /\ UNCHANGED <<raised_s, seg_tracks, unique_lane_ids, frame_interval, lane_idx,
                   saved>>

\* one iteration of `for i in range(len(frames) - 1)`
PairStep ==
    /\ pc_s = "tracks"
    /\ track_idx <= Len(seg_tracks)
    /\ pair_idx <= Len(seg_tracks[track_idx].frame_index) - 1
    /\ LET e == PairEffect(seg_tracks[track_idx], frame_interval,
                           unique_lane_ids[lane_idx], pair_idx)
       IN  /\ lines' = lines \o e.lines
           /\ speeds' = speeds \o e.speeds
           /\ lc_points_x' = lc_points_x \o e.xs
           /\ lc_points_y' = lc_points_y \o e.ys
           /\ raised_s' = e.exc
           /\ pc_s' = IF e.exc = "none" THEN pc_s ELSE "error"
    /\ pair_idx' = pair_idx + 1
    /\ UNCHANGED <<seg_tracks, unique_lane_ids, frame_interval, lane_idx, track_idx,
                   saved>>

\* the samples of the track are exhausted: the next track
NextTrack ==
    /\ pc_s = "tracks"
    /\ track_idx <= Len(seg_tracks)
    /\ pair_idx > Len(seg_tracks[track_idx].frame_index) - 1
    /\ track_idx' = track_idx + 1
    /\ pair_idx' = 1
    /\ UNCHANGED <<pc_s, raised_s, seg_tracks, unique_lane_ids, frame_interval,
                   lane_idx, lines, speeds, lc_points_x, lc_points_y, saved>>

\* all tracks walked: the lane is skipped when it has no line, else plotted
FinishLane ==
    /\ pc_s = "tracks"
    /\ track_idx > Len(seg_tracks)
    /\ saved' = IF lines = <<>> THEN saved
                ELSE Append(saved, unique_lane_ids[lane_idx])
    /\ lane_idx' = lane_idx + 1
    /\ pc_s' = "lanes"
    /\ UNCHANGED <<raised_s, seg_tracks, unique_lane_ids, frame_interval, track_idx,
                   pair_idx, lines, speeds, lc_points_x, lc_points_y>>

\* all lanes done
FinishPlot ==
    /\ pc_s = "lanes"
    /\ lane_idx > Len(unique_lane_ids)
    /\ pc_s' = "done"
    /\ UNCHANGED <<raised_s, seg_tracks, unique_lane_ids, frame_interval, lane_idx,
                   track_idx, pair_idx, lines, speeds, lc_points_x, lc_points_y,
                   saved>>

SegNext ==
    \/ SkipInvalidLane /\ UNCHANGED <<moveVars, updVars, readVars>>
    \/ StartLane /\ UNCHANGED <<moveVars, updVars, readVars>>
    \/ PairStep /\ UNCHANGED <<moveVars, updVars, readVars>>
    \/ NextTrack /\ UNCHANGED <<moveVars, updVars, readVars>>
    \/ FinishLane /\ UNCHANGED <<moveVars, updVars, readVars>>
    \/ FinishPlot /\ UNCHANGED <<moveVars, updVars, readVars>>

\* ------------------------------------------------------------------------
\* plot_trajectory_spacetime_diagram: properties
\* ------------------------------------------------------------------------

\* the sample-aligned fields of track t have one length
Consistent(t) ==
    LET track == seg_tracks[t] IN
    /\ Len(track.lane_id) = Len(track.frame_index)
    /\ Len(track.frenet_s) = Len(track.frame_index)
    /\ Len(track.frenet_s_speed) = Len(track.frame_index)

\* the sample pairs (track, first sample) walked so far for the current
\* lane, in the order walked
RECURSIVE PairsOf(_, _)
PairsOf(t, upto) ==
    IF upto <= 0 THEN <<>> ELSE Append(PairsOf(t, upto - 1), <<t, upto>>)

RECURSIVE PairsBefore(_)
PairsBefore(t) ==
    IF t <= 0 THEN <<>>
    ELSE PairsBefore(t - 1) \o PairsOf(t, Len(seg_tracks[t].frame_index) - 1)

WalkedPairs ==
    IF pc_s # "tracks" THEN <<>>
    ELSE PairsBefore(track_idx - 1)
         \o (IF track_idx <= Len(seg_tracks) THEN PairsOf(track_idx, pair_idx - 1) ELSE <<>>)

TargetLane == unique_lane_ids[lane_idx]

InTarget(p, j) == seg_tracks[p[1]].lane_id[j] = TargetLane

\* the point of sample j of the track of pair p
PointAt(p, j) ==
    <<seg_tracks[p[1]].frame_index[j] * frame_interval,
      2 * seg_tracks[p[1]].frenet_s[j]
         + (IF Len(seg_tracks[p[1]].frenet_s) > 1
               /\ Last(seg_tracks[p[1]].frenet_s) < seg_tracks[p[1]].frenet_s[1]
            THEN 0 - 1 ELSE 1)
           * (IF seg_tracks[p[1]].vehicle_length = <<>> THEN DEFAULT_VEHICLE_LENGTH
              ELSE seg_tracks[p[1]].vehicle_length[1])>>

\* the segments and the lane-change points the walked pairs call for
RECURSIVE ExpectedLines(_)
ExpectedLines(ps) ==
    IF ps = <<>> THEN <<>>
    ELSE LET p == Last(ps)
             before == ExpectedLines(SubSeq(ps, 1, Len(ps) - 1))
         IN  IF InTarget(p, p[2]) /\ InTarget(p, p[2] + 1)
             THEN Append(before, <<PointAt(p, p[2]), PointAt(p, p[2] + 1)>>)
             ELSE before

RECURSIVE ExpectedPoints(_)
ExpectedPoints(ps) ==
    IF ps = <<>> THEN <<>>
    ELSE LET p == Last(ps)
             before == ExpectedPoints(SubSeq(ps, 1, Len(ps) - 1))
         IN  IF InTarget(p, p[2]) /\ ~InTarget(p, p[2] + 1)
             THEN Append(before, PointAt(p, p[2]))
             ELSE IF ~InTarget(p, p[2]) /\ InTarget(p, p[2] + 1)
             THEN Append(before, PointAt(p, p[2] + 1))
             ELSE before

\* the lane-change points, x and y paired
LcPoints == [j \in 1..Len(lc_points_x) |-> <<lc_points_x[j], lc_points_y[j]>>]

\* C8: with consistent tracks, every walked sample pair gave exactly its one
\* outcome: a segment (both samples in the target lane), a cut-out point at
\* the first sample, a cut-in point at the second, or nothing; so the
\* segments number the pairs inside the lane and the points the pairs with
\* one sample in it
C8_PairOutcomes ==
    (pc_s = "tracks" /\ \A t \in 1..Len(seg_tracks) : Consistent(t)) =>
       /\ raised_s = "none"
       /\ lines = ExpectedLines(WalkedPairs)
       /\ Len(speeds) = Len(lines)
       /\ Len(lc_points_x) = Len(lc_points_y)
       /\ LcPoints = ExpectedPoints(WalkedPairs)
       /\ Len(lines) =
             Cardinality({j \in 1..Len(WalkedPairs) :
                             /\ InTarget(WalkedPairs[j], WalkedPairs[j][2])
                             /\ InTarget(WalkedPairs[j], WalkedPairs[j][2] + 1)})
       /\ Len(lc_points_x) =
             Cardinality({j \in 1..Len(WalkedPairs) :
                             InTarget(WalkedPairs[j], WalkedPairs[j][2])
                                # InTarget(WalkedPairs[j], WalkedPairs[j][2] + 1)})

\* both tracks walked for target lane 1, the first with two lane changes (a
\* segment, a cut-out at the second sample, a cut-in at the fifth), the
\* second never in the lane
C8_Witness ==
    /\ pc_s = "tracks"
    /\ track_idx > Len(seg_tracks)
    /\ TargetLane = 1
    /\ \A t \in 1..Len(seg_tracks) : Consistent(t)
    /\ seg_tracks[1].lane_id = <<1, 1, 2, 2, 1>>
    /\ seg_tracks[2].lane_id = <<2, 2>>
    /\ Len(lines) = 1
    /\ lc_points_x = <<1 * frame_interval, 4 * frame_interval>>
    /\ Len(lc_points_y) = 2

\* the tracks the walk has reached
Reached == {t \in 1..Len(seg_tracks) : pc_s \in {"tracks", "error"} /\ t <= track_idx}

\* C9 as stated: a track with mismatched lengths is reported for that track
\* alone; it is not passed over in silence and it does not abort the walk
C9_AsStated ==
    \A t \in Reached :
       ~Consistent(t) => pc_s # "error" /\ (t < track_idx => t \in ReportedInconsistent)

\* ------------------------------------------------------------------------
\* Specifications
\* ------------------------------------------------------------------------

MoveIdle ==
    /\ trajectory_data = EmptyMap
    /\ order = <<>>
    /\ lane_sequence_to_movement_map = EmptyMap
    /\ pc = "idle"
    /\ pos = 1
    /\ global_min_frame = 0
    /\ global_max_frame = 0
    /\ movement_counts = EmptyMap
    /\ od_counts = EmptyMap
    /\ od_vehicles = EmptyMap
    /\ valid_movement_vehicles = 0
    /\ undefined_filtered_count = 0
    /\ total_vehicles = 0
    /\ result = EmptyMap

MoveInit == MoveStart /\ UpdIdle /\ ReadIdle /\ SegIdle

SpecMove == MoveInit /\ [][MoveNext]_vars

UpdInit == UpdStart /\ MoveIdle /\ ReadIdle /\ SegIdle

SpecUpdate == UpdInit /\ [][UpdNext]_vars

ReadInit == ReadStart /\ MoveIdle /\ UpdIdle /\ SegIdle

SpecRead == ReadInit /\ [][ReadNext]_vars

SegInit == SegStart /\ MoveIdle /\ UpdIdle /\ ReadIdle

SpecSeg == SegInit /\ [][SegNext]_vars

====
